---- MODULE Spec2Model ----
(***************************************************************************)
(* Prefect MCP server: the seven tool handlers, the httpx transport client *)
(* with its error normalisation (_request), and the lifespan manager that  *)
(* creates and closes the shared client.  Two server modules exist in the  *)
(* repository: src/prefect_mcp_server.py (own httpx client, impl "httpx")  *)
(* and src/prefect_mcp_server_pkg/server.py (official prefect client,      *)
(* impl "pkg").  A process runs exactly one of them.                       *)
(*                                                                         *)
(* Conventions.  A Python Optional is a sequence of length 0 (None) or 1.  *)
(* A string that the code assembles from parts (an f-string) is the        *)
(* sequence of its parts, so that concatenation is \o and "contains" is    *)
(* membership of a part.  stderr is kept per writer: a frame's logged holds *)
(* what that invocation printed, lifespan_log what the lifespan printed.   *)
(***************************************************************************)
EXTENDS Integers, Sequences, FiniteSets, Bags, TLC

\* ---- bounds of the model ------------------------------------------------
\* number of tool invocations that can be in progress at the same time
NumCalls == 2
\* cap on the number of connection pools that exist unclosed at one time
MaxPools == 2

Calls == 1..NumCalls

None == <<>>
Some(x) == <<x>>

\* ---- configuration read from the environment at import time -------------
\* (url, key, module); the url is a sequence of parts, "/" being its own part
UrlPlain == <<"http:", "/", "/", "localhost:4200", "/", "api">>
UrlSlash == <<"http:", "/", "/", "prefect.example", "/", "api", "/">>

Configs ==
    { [url |-> UrlPlain, key |-> "",       impl |-> "httpx"],
      [url |-> UrlSlash, key |-> "secret", impl |-> "httpx"],
      [url |-> UrlPlain, key |-> "secret", impl |-> "pkg"] }

\* HEADERS: Content-Type always, Authorization iff a key was configured
HEADERS(key) ==
    IF key # ""
    THEN [content_type |-> "application/json", authorization |-> <<"Bearer ", key>>]
    ELSE [content_type |-> "application/json"]

\* ---- tool invocations (the caller's inputs) ------------------------------
F1 == [flows |-> [tags |-> [all_ |-> <<"production">>]]]
F2 == [flow_runs |-> [state |-> [type |-> [any_ |-> <<"FAILED", "CRASHED">>]]]]
P1 == [x |-> 1]

ListOps == {"list_flows", "list_flow_runs", "list_deployments"}
FilterOps == {"filter_flows", "filter_flow_runs", "filter_deployments"}
Ops == ListOps \cup FilterOps \cup {"create_flow_run"}

Inv(op, limit, crit, dep, par) ==
    [op |-> op, limit |-> limit, filter_criteria |-> crit,
     deployment_id |-> dep, parameters |-> par]

Invocations ==
    { Inv("list_flows", 20, None, None, None),
      Inv("list_flow_runs", 0, None, None, None),
      Inv("list_deployments", 5, None, None, None),
      Inv("filter_flows", 0, Some(F1), None, None),
      Inv("filter_flow_runs", 0, Some(F2), None, None),
      Inv("filter_deployments", 0, Some(F1), None, None) }
    \cup { Inv("create_flow_run", 0, None, d, p) :
             d \in {None, Some(""), Some("abc-123")}, p \in {None, Some(P1)} }

NoInv == Inv("none", 0, None, None, None)

\* ---- the remote service and the transport, as the handlers see them ------
JsonText(v) == [format |-> "json", value |-> v]
GarbageText == [format |-> "text", raw |-> "<html>"]
NotFoundText == JsonText([detail |-> "Not Found"])

\* what a stub remote service answers to a request: it names the request served
StubPayload(req) == [served |-> req]

\* outcomes of `await self.client.request(method, url, **kwargs)` once the
\* request is on its way: a response, no response (httpx.RequestError:
\* connection refused, timeout, DNS, TLS), or any other exception
Outcomes(req) ==
    { [type |-> "response", status_code |-> 200, text |-> JsonText(StubPayload(req))],
      [type |-> "response", status_code |-> 200, text |-> GarbageText],
      [type |-> "response", status_code |-> 404, text |-> NotFoundText],
      [type |-> "RequestError", cause |-> "timed out"],
      [type |-> "Exception", cause |-> "boom"] }

\* httpx refuses to send on a client whose aclose() has begun: RuntimeError,
\* which is not an httpx.RequestError
ClosedClientError ==
    [type |-> "Exception", cause |-> "Cannot send a request, as the client has been closed."]

\* ---- handler outcomes -----------------------------------------------------
NoOut == [kind |-> "none"]
Return(v) == [kind |-> "return", value |-> v]
Raise(e) == [kind |-> "raise", exc |-> e]

VARIABLES
    impl,            \* which server module the process runs
    PREFECT_API_URL, \* module constant read from the environment
    PREFECT_API_KEY, \* module constant read from the environment
    lifecycle,       \* "stopped" | "serving" | "closing" (inside client.close())
    client,          \* the lifespan's client: None or Some(record)
    open_pools,      \* connection pools constructed and not closed
    cause,           \* why the serving period is ending: "none" | "normal" | "error"
    escaped,         \* what left the lifespan manager at its last exit
    lifespan_log,    \* lines the lifespan manager and close() printed
    running          \* the bag of handler invocations in progress (their frames)

config == <<impl, PREFECT_API_URL, PREFECT_API_KEY>>
life == <<lifecycle, client, open_pools, cause, escaped, lifespan_log>>
vars == <<impl, PREFECT_API_URL, PREFECT_API_KEY, lifecycle, client, open_pools,
          cause, escaped, lifespan_log, running>>

\* the frame of one handler invocation: where it is ("inflight": suspended in
\* the awaited client call; "done": returned or raised, not yet handed to the
\* caller), its arguments, the request it handed to the client, how many
\* client requests it made, the outcome of the awaited client call (the local
\* `response` or `e`), what the handler returned or raised, and the
\* diagnostic lines it printed
Frame(pc, inv, sent, requests, got, out, logged) ==
    [pc |-> pc, call |-> inv, sent |-> sent, requests |-> requests,
     got |-> got, out |-> out, logged |-> logged]

Frames == BagToSet(running)
Enter(f) == running' = running (+) SetToBag({f})
Resume(f, g) == running' = (running (-) SetToBag({f})) (+) SetToBag({g})
Leave(f) == running' = running (-) SetToBag({f})

Init ==
    /\ \E cfg \in Configs :
          /\ impl = cfg.impl
          /\ PREFECT_API_URL = cfg.url
          /\ PREFECT_API_KEY = cfg.key
    /\ lifecycle = "stopped"
    /\ client = None
    /\ open_pools = 0
    /\ cause = "none"
    /\ escaped = "none"
    /\ lifespan_log = <<>>
    /\ running = EmptyBag

\* ==== src/prefect_mcp_server.py: PrefectApiClient ==========================

\* PrefectApiClient.__init__: the fields of a fresh client; the httpx
\* AsyncClient it owns is open and has never been closed
PrefectApiClient(api_url, headers) ==
    [api_url |-> api_url, headers |-> headers, is_closed |-> FALSE, close_calls |-> 0]

\* url = f"{self.api_url}/{endpoint}"
Url(api_url, endpoint) == api_url \o <<"/">> \o endpoint

\* the arguments of self.client.request(method, url, **kwargs)
Request(self, method, endpoint, params, json) ==
    [method |-> method, url |-> Url(self.api_url, endpoint), params |-> params, json |-> json]

PrefectApiClient_get_flows(self, limit) ==
    Request(self, "GET", <<"flows">>, Some([limit |-> limit]), None)

\* fault variant of get_flow_runs: the endpoint copied from get_flows
PrefectApiClient_get_flow_runs_flows(self, limit) ==
    Request(self, "GET", <<"flows">>, Some([limit |-> limit]), None)

PrefectApiClient_get_flow_runs(self, limit) ==
    Request(self, "GET", <<"flow_runs">>, Some([limit |-> limit]), None)

PrefectApiClient_get_deployments(self, limit) ==
    Request(self, "GET", <<"deployments">>, Some([limit |-> limit]), None)

PrefectApiClient_filter_flows(self, filter_criteria) ==
    Request(self, "POST", <<"flows", "/", "filter">>, None, Some(filter_criteria))

PrefectApiClient_filter_flow_runs(self, filter_criteria) ==
    Request(self, "POST", <<"flow_runs", "/", "filter">>, None, Some(filter_criteria))

PrefectApiClient_filter_deployments(self, filter_criteria) ==
    Request(self, "POST", <<"deployments", "/", "filter">>, None, Some(filter_criteria))

\* data = {"parameters": parameters} if parameters is not None else {}
\* (the empty JSON object is the empty function <<>>)
PrefectApiClient_create_flow_run(self, deployment_id, parameters) ==
    LET data == IF parameters # None THEN [parameters |-> parameters[1]] ELSE <<>>
    IN  Request(self, "POST",
                <<"deployments", "/", deployment_id, "/", "create_flow_run">>,
                None, Some(data))

\* response.raise_for_status(): raises HTTPStatusError unless the status is 2xx
RaisesForStatus(status_code) == ~(200 <= status_code /\ status_code <= 299)

\* response.json(): the decoded body; raises (ValueError) on a body that is no JSON
JsonDecodes(text) == text.format = "json"
Json(text) == text.value

\* fault variant of _request: the final `except Exception` clause is missing,
\* so anything that is neither a status error nor a RequestError propagates
_request_no_catch_all(req, outcome) ==
    IF outcome.type = "response"
    THEN IF RaisesForStatus(outcome.status_code)
         THEN Return([mcp_error |-> <<"Prefect API Error: HTTP ", ToString(outcome.status_code)>>,
                      details |-> outcome.text])
         ELSE IF JsonDecodes(outcome.text)
              THEN Return(Json(outcome.text))
              ELSE Raise("JSONDecodeError")
    ELSE IF outcome.type = "RequestError"
         THEN Return([mcp_error |-> <<"Prefect API Request Error: ", outcome.cause>>])
         ELSE Raise(outcome.cause)

\* fault variant of _request: `except Exception` written first, so it also
\* catches the status error and the RequestError
_request_catch_all_first(req, outcome) ==
    IF outcome.type = "response" /\ ~RaisesForStatus(outcome.status_code)
                                 /\ JsonDecodes(outcome.text)
    THEN Return(Json(outcome.text))
    ELSE Return([mcp_error |-> <<"Unexpected Server Error: ",
                                 IF outcome.type = "response" THEN "error" ELSE outcome.cause>>])

\* PrefectApiClient._request from the point where client.request has an
\* outcome: the try block and its three except clauses.  What it returns.
_request(req, outcome) ==
    IF outcome.type = "response"
    THEN IF RaisesForStatus(outcome.status_code)
         THEN Return([mcp_error |-> <<"Prefect API Error: HTTP ", ToString(outcome.status_code)>>,
                      details |-> outcome.text])
         ELSE IF JsonDecodes(outcome.text)
              THEN Return(Json(outcome.text))
              ELSE Return([mcp_error |-> <<"Unexpected Server Error: ", "Expecting value">>])
    ELSE IF outcome.type = "RequestError"
         THEN Return([mcp_error |-> <<"Prefect API Request Error: ", outcome.cause>>])
         ELSE Return([mcp_error |-> <<"Unexpected Server Error: ", outcome.cause>>])

\* the line _request prints to stderr in each except clause (none on success)
_request_log(req, outcome) ==
    IF outcome.type = "response"
    THEN IF RaisesForStatus(outcome.status_code)
         THEN << <<"HTTP Error calling", req.method, req.url, ToString(outcome.status_code)>> >>
         ELSE IF JsonDecodes(outcome.text)
              THEN <<>>
              ELSE << <<"Unexpected Error calling", req.method, req.url, "Expecting value">> >>
    ELSE IF outcome.type = "RequestError"
         THEN << <<"Request Error calling", req.method, req.url, outcome.cause>> >>
         ELSE << <<"Unexpected Error calling", req.method, req.url, outcome.cause>> >>

\* fault variant of Falsy: the check written as `deployment_id is None`
FalsyNoneOnly(deployment_id) == deployment_id = None

\* Python truthiness of an Optional[str]: `not deployment_id`
Falsy(deployment_id) == deployment_id = None \/ deployment_id[1] = ""

\* ==== lifespan manager (prefect_api_lifespan) ===============================
\* The actions follow src/prefect_mcp_server.py.  The pkg module's
\* `async with get_client() as client: yield` has the same shape (the client
\* is entered before the yield and exited after it on either exit) and is run
\* by the same actions.

\* stopped -> serving: construct the client, yield it to the server
Start ==
    /\ lifecycle = "stopped"
    /\ open_pools < MaxPools
    /\ lifecycle' = "serving"
    /\ client' = Some(PrefectApiClient(PREFECT_API_URL, HEADERS(PREFECT_API_KEY)))
    /\ open_pools' = open_pools + 1
    /\ cause' = "none"
    /\ escaped' = "none"
    /\ lifespan_log' = <<"Initializing Prefect API Client for MCP server...",
                         "PrefectApiClient initialized">>
    /\ UNCHANGED <<config, running>>

\* PrefectApiClient.close up to its await: prints, then self.client.aclose(),
\* which marks the httpx client closed before it awaits the transport
CloseBegin(self) ==
    [self EXCEPT !.is_closed = TRUE, !.close_calls = @ + 1]

\* fault variant of Shutdown: client.close() after the yield without
\* try/finally, so an exception thrown in at the yield skips it
ShutdownNoFinally(why) ==
    /\ lifecycle = "serving"
    /\ IF why = "error"
       THEN /\ lifecycle' = "stopped"
            /\ escaped' = "serving_error"
            /\ UNCHANGED <<client, open_pools, cause, lifespan_log>>
       ELSE /\ lifecycle' = "closing"
            /\ cause' = why
            /\ client' = Some(CloseBegin(client[1]))
            /\ open_pools' = open_pools - 1
            /\ lifespan_log' = lifespan_log \o <<"Cleaning up Prefect API Client...",
                                                 "Closing PrefectApiClient...">>
            /\ UNCHANGED escaped
    /\ UNCHANGED <<config, running>>

\* serving -> closing: the serving period ends, normally (why = "normal") or by
\* an exception thrown into the generator at the yield (why = "error"); the
\* finally block runs in both cases and calls client.close()
Shutdown(why) ==
    /\ lifecycle = "serving"
    /\ lifecycle' = "closing"
    /\ cause' = why
    /\ client' = Some(CloseBegin(client[1]))
    /\ open_pools' = open_pools - 1
    /\ lifespan_log' = lifespan_log \o <<"Cleaning up Prefect API Client...",
                                         "Closing PrefectApiClient...">>
    /\ UNCHANGED <<config, escaped, running>>

\* closing -> stopped: aclose() returned; close() prints and returns; the
\* exception that ended the serving period, if any, continues to propagate
CloseReturns ==
    /\ lifecycle = "closing"
    /\ lifecycle' = "stopped"
    /\ lifespan_log' = lifespan_log \o <<"PrefectApiClient closed.">>
    /\ escaped' = IF cause = "error" THEN "serving_error" ELSE "none"
    /\ cause' = "none"
    /\ UNCHANGED <<config, client, open_pools, running>>

\* closing -> stopped: aclose() raised; nothing catches it in close() or in
\* the finally block, so it leaves the lifespan manager; nothing is printed
CloseRaises ==
    /\ lifecycle = "closing"
    /\ lifecycle' = "stopped"
    /\ escaped' = "close_error"
    /\ cause' = "none"
    /\ UNCHANGED <<config, client, open_pools, lifespan_log, running>>

\* ==== src/prefect_mcp_server.py: the tool handlers =========================

\* a handler can run while the lifespan context exists: during the serving
\* period, and while the lifespan manager is suspended inside client.close()
Runnable(module) ==
    /\ impl = module
    /\ BagCardinality(running) < NumCalls
    /\ lifecycle \in {"serving", "closing"}

\* `return await client.<method>(...)`: runs without suspension into
\* self.client.request(method, url, **kwargs).  On a closed httpx client the
\* call raises at once and _request's except clauses turn it into a return
\* value; otherwise the handler suspends with the request on its way.
CallClient(inv, req) ==
    /\ Enter(IF client[1].is_closed
             THEN Frame("done", inv, Some(req), 1, Some(ClosedClientError),
                        _request(req, ClosedClientError),
                        _request_log(req, ClosedClientError))
             ELSE Frame("inflight", inv, Some(req), 1, None, NoOut, <<>>))
    /\ UNCHANGED <<config, life>>

list_flows(limit) ==
    /\ Runnable("httpx")
    /\ CallClient(Inv("list_flows", limit, None, None, None),
                  PrefectApiClient_get_flows(client[1], limit))

list_flow_runs(limit) ==
    /\ Runnable("httpx")
    /\ CallClient(Inv("list_flow_runs", limit, None, None, None),
                  PrefectApiClient_get_flow_runs(client[1], limit))

list_deployments(limit) ==
    /\ Runnable("httpx")
    /\ CallClient(Inv("list_deployments", limit, None, None, None),
                  PrefectApiClient_get_deployments(client[1], limit))

filter_flows(filter_criteria) ==
    /\ Runnable("httpx")
    /\ CallClient(Inv("filter_flows", 0, Some(filter_criteria), None, None),
                  PrefectApiClient_filter_flows(client[1], filter_criteria))

filter_flow_runs(filter_criteria) ==
    /\ Runnable("httpx")
    /\ CallClient(Inv("filter_flow_runs", 0, Some(filter_criteria), None, None),
                  PrefectApiClient_filter_flow_runs(client[1], filter_criteria))

filter_deployments(filter_criteria) ==
    /\ Runnable("httpx")
    /\ CallClient(Inv("filter_deployments", 0, Some(filter_criteria), None, None),
                  PrefectApiClient_filter_deployments(client[1], filter_criteria))

\* the early return of a create_flow_run handler: no client method is called
ReturnEarly(inv, value) ==
    /\ Enter(Frame("done", inv, None, 0, None, Return(value), <<>>))
    /\ UNCHANGED <<config, life>>

create_flow_run(deployment_id, parameters) ==
    /\ Runnable("httpx")
    /\ IF Falsy(deployment_id)
       THEN ReturnEarly(Inv("create_flow_run", 0, None, deployment_id, parameters),
                        [mcp_error |-> <<"Missing required argument: ", "deployment_id">>])
       ELSE CallClient(Inv("create_flow_run", 0, None, deployment_id, parameters),
                       PrefectApiClient_create_flow_run(client[1], deployment_id[1], parameters))

\* fault variant of Respond: a failed request is sent once more
RespondRetry(f) ==
    /\ impl = "httpx"
    /\ f.pc = "inflight"
    /\ \E o \in Outcomes(f.sent[1]) :
          IF ~(o.type = "response" /\ o.status_code = 200) /\ f.requests < 2
          THEN Resume(f, [f EXCEPT !.requests = @ + 1])
          ELSE Resume(f, [f EXCEPT !.pc = "done",
                                   !.got = Some(o),
                                   !.out = _request(f.sent[1], o),
                                   !.logged = _request_log(f.sent[1], o)])
    /\ UNCHANGED <<config, life>>

\* fault variant of Respond: a request that got no response closes the client
RespondClosesOnError(f) ==
    /\ impl = "httpx"
    /\ f.pc = "inflight"
    /\ \E o \in Outcomes(f.sent[1]) :
          /\ Resume(f, [f EXCEPT !.pc = "done",
                                  !.got = Some(o),
                                  !.out = _request(f.sent[1], o),
                                  !.logged = _request_log(f.sent[1], o)])
          /\ client' = IF o.type = "RequestError" /\ client # None
                       THEN Some([client[1] EXCEPT !.is_closed = TRUE])
                       ELSE client
    /\ UNCHANGED <<config, lifecycle, open_pools, cause, escaped, lifespan_log>>

\* the awaited client.request of invocation f has its outcome; _request
\* resumes, prints its diagnostic line and returns through the handler
Respond(f) ==
    /\ impl = "httpx"
    /\ f.pc = "inflight"
    /\ \E o \in Outcomes(f.sent[1]) :
          Resume(f, [f EXCEPT !.pc = "done",
                              !.got = Some(o),
                              !.out = _request(f.sent[1], o),
                              !.logged = _request_log(f.sent[1], o)])
    /\ UNCHANGED <<config, life>>

\* the framework hands the handler's outcome to the caller; the invocation
\* is over and its frame is gone
Deliver(f) ==
    /\ f.pc = "done"
    /\ Leave(f)
    /\ UNCHANGED <<config, life>>

\* ==== src/prefect_mcp_server_pkg/server.py: the tool handlers ==============

\* a call of a method of the official client, with its keyword arguments
ClientCall(method, kwargs) == [call |-> method, kwargs |-> kwargs]

\* outcomes of an awaited method of the official client: the parsed objects,
\* or an exception (failure status, no response, unparsable body)
PkgOutcomes(cc) ==
    { [type |-> "returns", objects |-> << [model |-> cc.call, fields |-> StubPayload(cc)] >>],
      [type |-> "raises", exc |-> "PrefectHTTPStatusError"],
      [type |-> "raises", exc |-> "RequestError"],
      [type |-> "raises", exc |-> "ValidationError"] }

\* obj.dict(): the mapping of the object's fields
Dict(obj) == obj.fields

\* [x.dict() for x in objects]
Dicts(objects) == [i \in DOMAIN objects |-> Dict(objects[i])]

\* the value a handler builds from what the client method returned
PkgResult(op, objects) ==
    IF op \in {"list_flows", "filter_flows"} THEN [flows |-> Dicts(objects)]
    ELSE IF op \in {"list_flow_runs", "filter_flow_runs"} THEN [flow_runs |-> Dicts(objects)]
    ELSE IF op \in {"list_deployments", "filter_deployments"} THEN [deployments |-> Dicts(objects)]
    ELSE Dict(objects[1])

\* `x = await client.<method>(...)`: no try/except surrounds it, so what the
\* client raises leaves the handler
PkgCallClient(inv, cc) ==
    /\ Enter(IF client[1].is_closed
             THEN Frame("done", inv, Some(cc), 1,
                        Some([type |-> "raises", exc |-> "RuntimeError"]),
                        Raise("RuntimeError"), <<>>)
             ELSE Frame("inflight", inv, Some(cc), 1, None, NoOut, <<>>))
    /\ UNCHANGED <<config, life>>

pkg_list_flows(limit) ==
    /\ Runnable("pkg")
    /\ PkgCallClient(Inv("list_flows", limit, None, None, None),
                     ClientCall("read_flows", [limit |-> limit]))

pkg_list_flow_runs(limit) ==
    /\ Runnable("pkg")
    /\ PkgCallClient(Inv("list_flow_runs", limit, None, None, None),
                     ClientCall("read_flow_runs", [limit |-> limit]))

pkg_list_deployments(limit) ==
    /\ Runnable("pkg")
    /\ PkgCallClient(Inv("list_deployments", limit, None, None, None),
                     ClientCall("read_deployments", [limit |-> limit]))

pkg_filter_flows(filter_criteria) ==
    /\ Runnable("pkg")
    /\ PkgCallClient(Inv("filter_flows", 0, Some(filter_criteria), None, None),
                     ClientCall("read_flows", [filter |-> filter_criteria]))

pkg_filter_flow_runs(filter_criteria) ==
    /\ Runnable("pkg")
    /\ PkgCallClient(Inv("filter_flow_runs", 0, Some(filter_criteria), None, None),
                     ClientCall("read_flow_runs", [filter |-> filter_criteria]))

pkg_filter_deployments(filter_criteria) ==
    /\ Runnable("pkg")
    /\ PkgCallClient(Inv("filter_deployments", 0, Some(filter_criteria), None, None),
                     ClientCall("read_deployments", [filter |-> filter_criteria]))

\* parameters=parameters or {}
pkg_create_flow_run(deployment_id, parameters) ==
    /\ Runnable("pkg")
    /\ IF Falsy(deployment_id)
       THEN ReturnEarly(Inv("create_flow_run", 0, None, deployment_id, parameters),
                        [error |-> <<"Missing required argument: ", "deployment_id">>])
       ELSE PkgCallClient(Inv("create_flow_run", 0, None, deployment_id, parameters),
                          ClientCall("create_flow_run_from_deployment",
                                     [deployment_id |-> deployment_id[1],
                                      parameters |-> IF parameters = None THEN <<>>
                                                     ELSE parameters[1]]))

\* the awaited client method of invocation f returns or raises
PkgRespond(f) ==
    /\ impl = "pkg"
    /\ f.pc = "inflight"
    /\ \E o \in PkgOutcomes(f.sent[1]) :
          Resume(f, [f EXCEPT !.pc = "done",
                              !.got = Some(o),
                              !.out = IF o.type = "returns"
                                      THEN Return(PkgResult(f.call.op, o.objects))
                                      ELSE Raise(o.exc)])
    /\ UNCHANGED <<config, life>>

\* ==== the system ============================================================

Next ==
    \/ Start
    \/ \E why \in {"normal", "error"} : Shutdown(why)
    \/ CloseReturns
    \/ CloseRaises
    \/ \E i \in Invocations : i.op = "list_flows" /\ list_flows(i.limit)
    \/ \E i \in Invocations : i.op = "list_flow_runs" /\ list_flow_runs(i.limit)
    \/ \E i \in Invocations : i.op = "list_deployments" /\ list_deployments(i.limit)
    \/ \E i \in Invocations : i.op = "filter_flows" /\ filter_flows(i.filter_criteria[1])
    \/ \E i \in Invocations : i.op = "filter_flow_runs" /\ filter_flow_runs(i.filter_criteria[1])
    \/ \E i \in Invocations :
          i.op = "filter_deployments" /\ filter_deployments(i.filter_criteria[1])
    \/ \E i \in Invocations :
          i.op = "create_flow_run" /\ create_flow_run(i.deployment_id, i.parameters)
    \/ \E f \in Frames : Respond(f)
    \/ \E i \in Invocations : i.op = "list_flows" /\ pkg_list_flows(i.limit)
    \/ \E i \in Invocations : i.op = "list_flow_runs" /\ pkg_list_flow_runs(i.limit)
    \/ \E i \in Invocations : i.op = "list_deployments" /\ pkg_list_deployments(i.limit)
    \/ \E i \in Invocations : i.op = "filter_flows" /\ pkg_filter_flows(i.filter_criteria[1])
    \/ \E i \in Invocations :
          i.op = "filter_flow_runs" /\ pkg_filter_flow_runs(i.filter_criteria[1])
    \/ \E i \in Invocations :
          i.op = "filter_deployments" /\ pkg_filter_deployments(i.filter_criteria[1])
    \/ \E i \in Invocations :
          i.op = "create_flow_run" /\ pkg_create_flow_run(i.deployment_id, i.parameters)
    \/ \E f \in Frames : PkgRespond(f)
    \/ \E f \in Frames : Deliver(f)

Spec == Init /\ [][Next]_vars

TypeOK ==
    /\ lifecycle \in {"stopped", "serving", "closing"}
    /\ open_pools \in 0..MaxPools
    /\ BagCardinality(running) <= NumCalls
    /\ \A f \in Frames : f.pc \in {"inflight", "done"}

\* ==== vocabulary of the properties ==========================================

\* the uniform error record: a mapping with a message under "mcp_error"
\* (src/prefect_mcp_server.py) or "error" (the pkg module)
IsErrorRecord(v) == "mcp_error" \in DOMAIN v \/ "error" \in DOMAIN v
Message(v) == IF "mcp_error" \in DOMAIN v THEN v.mcp_error ELSE v.error

\* the error kind of an error record, read off the head of its message
ErrorKind(v) ==
    LET head == Message(v)[1]
    IN  IF head = "Missing required argument: " THEN "missing-argument"
        ELSE IF head = "Prefect API Error: HTTP " THEN "remote-status-error"
        ELSE IF head = "Prefect API Request Error: " THEN "transport-error"
        ELSE IF head = "Unexpected Server Error: " THEN "internal-error"
        ELSE "unknown"

Parts(msg) == {msg[i] : i \in DOMAIN msg}

Returned(f) == f.pc = "done" /\ f.out.kind = "return"
ReturnedError(f) == Returned(f) /\ IsErrorRecord(f.out.value)
ReturnedPayload(f) == Returned(f) /\ ~IsErrorRecord(f.out.value)

\* deployment_id empty or absent
MissingDeploymentId(inv) ==
    inv.op = "create_flow_run" /\ inv.deployment_id \in {None, Some("")}

\* the table of operations: method, relative path, query and body of each
TableMethod(inv) == IF inv.op \in ListOps THEN "GET" ELSE "POST"

TablePath(inv) ==
    IF inv.op = "list_flows" THEN <<"flows">>
    ELSE IF inv.op = "list_flow_runs" THEN <<"flow_runs">>
    ELSE IF inv.op = "list_deployments" THEN <<"deployments">>
    ELSE IF inv.op = "filter_flows" THEN <<"flows", "/", "filter">>
    ELSE IF inv.op = "filter_flow_runs" THEN <<"flow_runs", "/", "filter">>
    ELSE IF inv.op = "filter_deployments" THEN <<"deployments", "/", "filter">>
    ELSE <<"deployments", "/", inv.deployment_id[1], "/", "create_flow_run">>

TableQuery(inv) == IF inv.op \in ListOps THEN Some([limit |-> inv.limit]) ELSE None

TableBody(inv) ==
    IF inv.op \in ListOps THEN None
    ELSE IF inv.op \in FilterOps THEN inv.filter_criteria
    ELSE IF inv.parameters = None THEN Some(<<>>)
    ELSE Some([parameters |-> inv.parameters[1]])

\* the base URL without its trailing slashes
RECURSIVE StripSlashes(_)
StripSlashes(url) ==
    IF url # <<>> /\ url[Len(url)] = "/" THEN StripSlashes(SubSeq(url, 1, Len(url) - 1))
    ELSE url

\* frame g is new in the bag after the step, or has one more copy
Appears(g) == CopiesIn(g, running') > CopiesIn(g, running)

\* ==== C1 ====================================================================
\* the invocation's awaited client call had one of the outcomes of a remote
\* request: a response, no response, or another exception
RemoteOutcome(f) ==
    /\ f.got # None
    /\ \/ impl = "httpx" /\ f.got[1] \in Outcomes(f.sent[1])
       \/ impl = "pkg" /\ f.got[1] \in PkgOutcomes(f.sent[1])

\* C1: every invocation of one of the seven operations ends, whatever the
\* remote request's outcome, by returning one value (the success payload or an
\* error record); no exception leaves the handler.
C1_EveryOutcomeIsReturned ==
    \A f \in Frames :
        (f.pc = "done" /\ RemoteOutcome(f)) => f.out.kind = "return"

\* ==== C2 ====================================================================
\* C2: create_flow_run with deployment_id empty or absent, whatever the
\* parameters, hands no request to the client and returns an error record of
\* kind missing-argument.
C2_MissingDeploymentIdFailsFast ==
    \A f \in Frames :
        MissingDeploymentId(f.call) =>
            /\ f.requests = 0
            /\ f.sent = None
            /\ ReturnedError(f)
            /\ ErrorKind(f.out.value) = "missing-argument"

C2_Witness ==
    \E f, g \in Frames :
        /\ f.call.op = "create_flow_run" /\ f.call.deployment_id = Some("")
        /\ f.call.parameters = Some(P1) /\ f.pc = "done"
        /\ g.call.op = "create_flow_run" /\ g.call.deployment_id = None /\ g.pc = "done"

\* ==== C3 ====================================================================
\* C3: over any sequence of start/stop cycles, a serving period has exactly
\* one open pool, that of the lifespan's client, never yet closed; once the
\* period has ended (normally or by an error) close has been called exactly
\* once on that client, and after the stop no pool is open.
C3_OnePoolPerServingPeriod ==
    impl = "httpx" =>
        /\ lifecycle = "serving" =>
              /\ open_pools = 1
              /\ ~client[1].is_closed
              /\ client[1].close_calls = 0
        /\ lifecycle = "closing" => client[1].close_calls = 1
        /\ lifecycle = "stopped" =>
              /\ open_pools = 0
              /\ client # None => (client[1].is_closed /\ client[1].close_calls = 1)

C3_Witness ==
    /\ impl = "httpx"
    /\ lifecycle = "stopped"
    /\ escaped = "serving_error"
    /\ client # None /\ client[1].close_calls = 1

\* ==== C4 ====================================================================
\* C4: a failure of client.close() during the serving -> stopped transition
\* is not propagated out of the lifespan manager.
C4_CloseFailureNotPropagated == impl = "httpx" => escaped # "close_error"

\* ==== C5 ====================================================================
\* the invocations C5 is about: those that made their client request and
\* complete after client.close() has begun and before a next start
CompletesDuringShutdown(g) ==
    /\ impl = "httpx"
    /\ lifecycle \in {"closing", "stopped"}
    /\ Appears(g)
    /\ g.pc = "done"
    /\ g.requests > 0

\* C5 as claimed: such an invocation returns its success payload or an error
\* record of kind transport-error, and nothing else.
C5_Claimed ==
    [][\A g \in BagToSet(running') :
          CompletesDuringShutdown(g) =>
              /\ g.out.kind = "return"
              /\ IsErrorRecord(g.out.value) => ErrorKind(g.out.value) = "transport-error"]_vars

\* C5 amended: such an invocation returns (it raises nothing) its success
\* payload or an error record whose kind follows the outcome of its request:
\* remote-status-error for a failure status, transport-error for no response,
\* internal-error otherwise, which includes the request that was attempted on
\* the already closed client.
C5_ShutdownOutcomeIsReturned ==
    [][\A g \in BagToSet(running') :
          CompletesDuringShutdown(g) =>
              /\ g.out.kind = "return"
              /\ IsErrorRecord(g.out.value) =>
                    /\ ErrorKind(g.out.value) \in
                          {"remote-status-error", "transport-error", "internal-error"}
                    /\ g.got[1] = ClosedClientError =>
                          ErrorKind(g.out.value) = "internal-error"]_vars

C5_Witness ==
    /\ impl = "httpx"
    /\ lifecycle = "closing"
    /\ \E f, g \in Frames :
          /\ f.pc = "done" /\ f.got = Some(ClosedClientError)
          /\ g.pc = "done" /\ g.got # None /\ g.got[1].type = "RequestError"

C7_ExactlyOneRequest ==
    impl = "httpx" =>
        \A f \in Frames :
            f.requests = IF MissingDeploymentId(f.call) THEN 0 ELSE 1

C7_Witness ==
    /\ impl = "httpx"
    /\ \E f \in Frames :
          /\ ReturnedError(f)
          /\ f.got # None /\ f.got[1].type = "RequestError"
          /\ f.requests = 1

\* ==== C8 ====================================================================
\* C8: the error kind follows the failure category alone: a response with a
\* failure status gives remote-status-error, the message containing the
\* status code and the details being the raw body; no response gives
\* transport-error; anything else, an undecodable success body included,
\* gives internal-error.
C8_KindFollowsCategory ==
    impl = "httpx" =>
        \A f \in Frames :
            (f.pc = "done" /\ f.got # None) =>
                LET o == f.got[1]
                    v == f.out.value
                IN  /\ f.out.kind = "return"
                    /\ (o.type = "response" /\ o.status_code >= 400) =>
                          /\ IsErrorRecord(v)
                          /\ ErrorKind(v) = "remote-status-error"
                          /\ ToString(o.status_code) \in Parts(Message(v))
                          /\ "details" \in DOMAIN v /\ v.details = o.text
                    /\ o.type = "RequestError" =>
                          IsErrorRecord(v) /\ ErrorKind(v) = "transport-error"
                    /\ (o.type = "Exception"
                        \/ (o.type = "response" /\ o.status_code < 300 /\ o.text.format # "json")) =>
                          IsErrorRecord(v) /\ ErrorKind(v) = "internal-error"

C8_Witness ==
    /\ impl = "httpx"
    /\ \E f, g \in Frames :
          /\ f.pc = "done" /\ f.got # None
          /\ f.got[1].type = "response" /\ f.got[1].status_code = 404
          /\ g.pc = "done" /\ g.got # None
          /\ g.got[1].type = "response" /\ g.got[1].text = GarbageText

\* ==== C9 ====================================================================
\* C9: a step in which an invocation returns an error record leaves the
\* shared client (base URL, headers, open/closed state) and the configuration
\* as they were, and leaves every other invocation's frame as it was.
C9_ErrorLeavesClientAndOthers ==
    [][\A g \in BagToSet(running') :
          (Appears(g) /\ ReturnedError(g)) =>
              /\ client' = client
              /\ open_pools' = open_pools
              /\ config' = config
              /\ (running' (-) SetToBag({g})) \sqsubseteq running]_vars

C9_Witness ==
    /\ impl = "httpx"
    /\ lifecycle = "serving"
    /\ ~client[1].is_closed
    /\ \E f, g \in Frames :
          /\ ReturnedError(f) /\ ErrorKind(f.out.value) = "transport-error"
          /\ ReturnedPayload(g)

\* ==== C10 ===================================================================
\* C10: whatever the base URL, with or without a trailing slash, the request
\* URL is the base URL and the relative path joined by exactly one slash.
C10_ExactlyOneSlash ==
    impl = "httpx" =>
        \A f \in Frames :
            f.sent # None =>
                LET base == StripSlashes(PREFECT_API_URL)
                IN  f.sent[1].url = base \o <<"/">> \o TablePath(f.call)
====
